---- MODULE Spec2Model ----
(***************************************************************************)
(* Model of src/migrator.py: the paginated fetch, the connection           *)
(* reconciler and the three migration flows of main().                     *)
(*                                                                         *)
(* Python values: a dict is a function whose domain is its set of keys;    *)
(* the result of send_request is tagged, None or Dict(d), since it may be  *)
(* either.  Every request of the program is one step; the HTTP outcome of  *)
(* the request is chosen by the environment.                               *)
(***************************************************************************)
EXTENDS Integers, Sequences, FiniteSets, TLC

(* ------------------------------ bounds -------------------------------- *)
\* listing requests the server answers before it must end the listing
MaxPages == 2
\* entries of the local `databases` list
MaxLocal == 2
\* source connection records handed to the reconciler run on its own
MaxSource == 2

(* --------------------------- python values ---------------------------- *)
None == [type |-> "None"]
Dict(d) == [type |-> "dict", val |-> d]
EmptyDict == [k \in {} |-> ""]
\* None as the value of a field
Null == "null"

\* d.get(k, default)
Get(d, k, default) == IF k \in DOMAIN d THEN d[k] ELSE default

\* truth value of what send_request returned: None and {} are falsy
Truthy(v) == v.type = "dict" /\ DOMAIN v.val # {}

\* str.lower() on the names that occur
LowerTable ==
  [Db1 |-> "db1", db1 |-> "db1", DB1 |-> "db1", DB2 |-> "db2", db2 |-> "db2"]

Lower(s) == LowerTable[s]

SeqsUpTo(S, n) == UNION {[1..k -> S] : k \in 0..n}

(* ------------------------------ constants ----------------------------- *)
ENDPOINTS ==
  [connections |-> "beta/audience/connection",
   templates   |-> "beta/template",
   audiences   |-> "beta/audience/query"]

DefaultSize == 100

RequiredSections == <<"source", "destination">>
RequiredFields == <<"url", "ApiKey", "CustomerId">>

SecretFields == {"password", "port", "host", "user"}

FlowNames == {"templates", "audiences", "databases"}

(* --------------------------- configurations --------------------------- *)
SectionValues ==
  [source      |-> [url |-> "https://src/", ApiKey |-> "src-key", CustomerId |-> "src-cust"],
   destination |-> [url |-> "https://dst/", ApiKey |-> "dst-key", CustomerId |-> "dst-cust"]]

\* a section of the file with any subset of its fields
Sections(s) ==
  {[f \in F |-> SectionValues[s][f]] : F \in SUBSET {"url", "ApiKey", "CustomerId"}}

\* the `migrating` section: the three flags, or EmptyDict for a file
\* without the section
MigratingValues == {EmptyDict} \cup [FlowNames -> BOOLEAN]

\* entries of the local `databases` list: one complete, one that lacks
\* port, user and password
LocalRecords ==
  {[name |-> "DB1", host |-> "h1", port |-> "5432", user |-> "u1", password |-> "p1"],
   [name |-> "db2", host |-> "h2"]}

\* a local entry whose name differs from that of the complete one in letter
\* case only, with secrets of its own
CaseVariants == {[name |-> "db1", host |-> "h1b", user |-> "u1b"]}

\* the loaded file: with or without each required section, with or
\* without each of its fields, with or without `migrating` and
\* `databases`; the `databases` list is only varied where the databases
\* flow reads it
Configs ==
  UNION {
    {[k \in secs \cup (IF mig = EmptyDict THEN {} ELSE {"migrating"})
                  \cup (IF dbs = <<>> THEN {} ELSE {"databases"}) |->
        CASE k = "source"      -> src
          [] k = "destination" -> dst
          [] k = "migrating"   -> mig
          [] k = "databases"   -> dbs] :
       secs \in SUBSET {"source", "destination"},
       src \in Sections("source"), dst \in Sections("destination"),
       dbs \in IF Get(mig, "databases", FALSE)
               THEN SeqsUpTo(LocalRecords, MaxLocal) ELSE {<<>>}} :
    mig \in MigratingValues}

(* ------------------------- what the servers hold ---------------------- *)
\* records of a listing: some lack the field the flow reads (id or name)
ListingRecords(endpoint) ==
  CASE endpoint = "templates" ->
         {[id |-> "t1"], [id |-> "t2"], [label |-> "untitled"]}
    [] endpoint = "audiences" ->
         {[name |-> "A"], [name |-> "B"], [query |-> "q"]}
    [] endpoint = "connections" ->
         {[name |-> "Db1", kind |-> "pg", host |-> "srchost"],
          [name |-> "db1", kind |-> "mysql"],
          [name |-> "DB2", kind |-> "pg", password |-> "srcpw"],
          [kind |-> "pg"]}

\* the content of one page: no record or one, and for the templates a
\* page of two
Contents(endpoint) ==
  {<<>>} \cup {<<r>> : r \in ListingRecords(endpoint)}
    \cup (IF endpoint = "templates" THEN {<<[label |-> "untitled"], [id |-> "t1"]>>} ELSE {})

\* the `params` argument of fetch_paginated_data: absent, empty, with a
\* size, with a filter, with a page of its own
ParamsValues ==
  {None, Dict(EmptyDict), Dict([size |-> 1]), Dict([filter |-> "x"]),
   Dict([size |-> 1, filter |-> "x"]), Dict([page |-> 5]),
   Dict([page |-> 5, size |-> 1])}

\* decoded bodies of a listing response, some without `content`, some
\* without `last`; `mustEnd` when the server has no further page to give
ListingBodies(endpoint, mustEnd) ==
  {EmptyDict, [last |-> TRUE]}
    \cup {[content |-> c, last |-> TRUE] : c \in Contents(endpoint)}
    \cup (IF mustEnd THEN {}
          ELSE {[last |-> FALSE]}
                 \cup {[content |-> c, last |-> FALSE] : c \in Contents(endpoint)}
                 \cup {[content |-> <<r>>] : r \in {x \in ListingRecords(endpoint) :
                                                      DOMAIN x \subseteq {"id", "name"}}})

\* decoded bodies of the detail response for a template id
DetailBodies(id) == {EmptyDict, [id |-> id, body |-> "full"]}

\* decoded bodies of a create response
CreateBodies == {EmptyDict, [created |-> "yes"]}

\* outcome of one HTTP exchange: requests.request raises, raise_for_status
\* raises, response.json() raises, or the body decodes
Outcomes(bodies) ==
  {[kind |-> k, json |-> EmptyDict] : k \in {"transport_error", "http_error", "undecodable"}}
    \cup {[kind |-> "ok", json |-> b] : b \in bodies}

(* ------------------------------ helpers ------------------------------- *)
get_endpoint(base_url, key) == [base |-> base_url, path |-> ENDPOINTS[key], id |-> ""]

\* what send_request returns for an outcome of the exchange
send_request(outcome) == IF outcome.kind = "ok" THEN Dict(outcome.json) ELSE None

\* a line written to standard output: who printed it and what it reports
Notice(by, says) == [by |-> by, says |-> says]

\* what send_request prints: one of its two error lines when an except
\* clause is entered, nothing when the body decodes
SendRequestNotice(outcome) ==
  IF outcome.kind = "ok" THEN <<>> ELSE <<Notice("send_request", "error")>>

\* `if response:` of create_template, create_audience and sync_connections:
\* the success line or the failure line
CreatorNotice(by, response) ==
  IF Truthy(response) THEN Notice(by, "success") ELSE Notice(by, "failure")

\* `if response: ... return response` and the final `return None`
CreatorReturn(response) == IF Truthy(response) THEN response ELSE None

\* the headers taken from the source section whatever the key
prepare_headers_SourceAlways(cfg, key) ==
  LET section == Get(cfg, "source", EmptyDict)
  IN  [ApiKey       |-> Get(section, "ApiKey", Null),
       CustomerId   |-> Get(section, "CustomerId", Null),
       Content_Type |-> "application/json"]

prepare_headers(cfg, key) ==
  LET section == Get(cfg, key, EmptyDict)
  IN  [ApiKey       |-> Get(section, "ApiKey", Null),
       CustomerId   |-> Get(section, "CustomerId", Null),
       Content_Type |-> "application/json"]

\* first missing field of a section, in the order of required_fields
RECURSIVE MissingField(_, _)
MissingField(section, fields) ==
  IF fields = <<>> THEN "ok"
  ELSE IF Head(fields) \notin DOMAIN section THEN "KeyError"
  ELSE MissingField(section, Tail(fields))

RECURSIVE ValidateSections(_, _)
ValidateSections(cfg, sections) ==
  IF sections = <<>> THEN "ok"
  ELSE IF Head(sections) \notin DOMAIN cfg THEN "KeyError"
  ELSE IF MissingField(cfg[Head(sections)], RequiredFields) # "ok" THEN "KeyError"
  ELSE ValidateSections(cfg, Tail(sections))

\* validation that looks at the source section only
validate_config_SourceOnly(cfg) == ValidateSections(cfg, <<"source">>)

\* "ok" when validate_config returns, "KeyError" when it raises
validate_config(cfg) == ValidateSections(cfg, RequiredSections)

\* the parameters with the 1-based loop counter sent as the page index
CurrentParams_OneBased(page, size, params) ==
  LET base == [page |-> page, size |-> size]
  IN  IF Truthy(params)
      THEN [k \in {"page", "size"} \cup DOMAIN params.val |->
              IF k \in DOMAIN params.val THEN params.val[k] ELSE base[k]]
      ELSE base

\* size = params.get("size", 100) if params else 100
Size(params) == IF Truthy(params) THEN Get(params.val, "size", DefaultSize) ELSE DefaultSize

\* current_params = {"page": page - 1, "size": size}; update(params) if params
CurrentParams(page, size, params) ==
  LET base == [page |-> page - 1, size |-> size]
  IN  IF Truthy(params)
      THEN [k \in {"page", "size"} \cup DOMAIN params.val |->
              IF k \in DOMAIN params.val THEN params.val[k] ELSE base[k]]
      ELSE base

\* all_content.extend(data.get("content", []))
Extend(all_content, data) == all_content \o Get(data.val, "content", <<>>)

\* the loop with the `last` test moved before the extend
PaginateStep_BreakBeforeExtend(all_content, page, data) ==
  IF ~Truthy(data)
  THEN [all_content |-> all_content, page |-> page, return |-> TRUE]
  ELSE IF Get(data.val, "last", FALSE)
  THEN [all_content |-> all_content, page |-> page, return |-> TRUE]
  ELSE [all_content |-> Extend(all_content, data), page |-> page + 1, return |-> FALSE]

\* the loop returning an empty list when a request gave no data
PaginateStep_EmptyOnNoData(all_content, page, data) ==
  IF ~Truthy(data)
  THEN [all_content |-> <<>>, page |-> page, return |-> TRUE]
  ELSE IF Get(data.val, "last", FALSE)
  THEN [all_content |-> Extend(all_content, data), page |-> page, return |-> TRUE]
  ELSE [all_content |-> Extend(all_content, data), page |-> page + 1, return |-> FALSE]

\* the loop leaving on a page without records
PaginateStep_BreakOnEmptyPage(all_content, page, data) ==
  IF ~Truthy(data)
  THEN [all_content |-> all_content, page |-> page, return |-> TRUE]
  ELSE IF Get(data.val, "last", FALSE) \/ Get(data.val, "content", <<>>) = <<>>
  THEN [all_content |-> Extend(all_content, data), page |-> page, return |-> TRUE]
  ELSE [all_content |-> Extend(all_content, data), page |-> page + 1, return |-> FALSE]

\* the loop leaving only when nothing came back (`if data is None: break`)
PaginateStep_BreakOnNoneOnly(all_content, page, data) ==
  IF data = None
  THEN [all_content |-> all_content, page |-> page, return |-> TRUE]
  ELSE IF Get(data.val, "last", FALSE)
  THEN [all_content |-> Extend(all_content, data), page |-> page, return |-> TRUE]
  ELSE [all_content |-> Extend(all_content, data), page |-> page + 1, return |-> FALSE]

\* one pass of the while loop on the value send_request returned
PaginateStep(all_content, page, data) ==
  IF ~Truthy(data)
  THEN [all_content |-> all_content, page |-> page, return |-> TRUE]
  ELSE IF Get(data.val, "last", FALSE)
  THEN [all_content |-> Extend(all_content, data), page |-> page, return |-> TRUE]
  ELSE [all_content |-> Extend(all_content, data), page |-> page + 1, return |-> FALSE]

(* ----------------------------- reconciler ----------------------------- *)
\* the comprehension keeping the first record of a key
RECURSIVE BuildMap_FirstWins(_, _, _)
BuildMap_FirstWins(dbs, k, m) ==
  IF k > Len(dbs) THEN m
  ELSE LET key == Lower(dbs[k].name)
       IN  BuildMap_FirstWins(dbs, k + 1,
             [n \in DOMAIN m \cup {key} |-> IF n \in DOMAIN m THEN m[n] ELSE k])

\* {db["name"].lower(): db for db in dbs}: a later record replaces an
\* earlier one of the same key.  The map holds references: the position
\* of the record in the list.
RECURSIVE BuildMap(_, _, _)
BuildMap(dbs, k, m) ==
  IF k > Len(dbs) THEN m
  ELSE LET key == Lower(dbs[k].name)
       IN  BuildMap(dbs, k + 1,
                    [n \in DOMAIN m \cup {key} |-> IF n = key THEN k ELSE m[n]])

NameMap(dbs) == BuildMap(dbs, 1, EmptyDict)

\* db["name"] raises KeyError on a record without the key
HasNames(dbs) == \A k \in 1..Len(dbs) : "name" \in DOMAIN dbs[k]

\* source_map.keys() & config_map.keys()
CommonNames(smap, cmap) == DOMAIN smap \cap DOMAIN cmap

\* the payload with the source record spread last: its values win
MergePayload_SourceWins(source_db, config_db) ==
  [f \in DOMAIN source_db \cup SecretFields |->
     IF f \in DOMAIN source_db THEN source_db[f] ELSE Get(config_db, f, Null)]

\* payload = {**source_db, "password": config_db.get("password"), ...}
MergePayload(source_db, config_db) ==
  [f \in DOMAIN source_db \cup SecretFields |->
     IF f \in SecretFields THEN Get(config_db, f, Null) ELSE source_db[f]]

\* the payload built by updating source_db in place
SourceAfterMerge_InPlace(source_db, payload) == payload

\* the source record once the payload is built: the dict display makes a
\* new dict, source_db is only read
SourceAfterMerge(source_db, payload) == source_db

(* ------------------------------- state -------------------------------- *)
VARIABLES
  config,          \* the loaded configuration
  pc,              \* where main() is
  migrate_config,  \* config.get("migrating", {})
  endpoint,        \* fetch_paginated_data: the listing being fetched
  page, size,      \* fetch_paginated_data: locals
  all_content,     \* fetch_paginated_data: local
  templates, audiences, connections,   \* main: the fetched batches
  i,               \* position of the for loop in its batch
  template_data,   \* main: what fetch_content returned
  source_map, config_map,              \* sync_connections: locals
  common_names,    \* sync_connections: names the for loop has yet to visit
  requests,        \* history: requests of the current flow, with results
  responses,       \* history: what send_request returned to the paginator
  started,         \* history: flows that issued a request
  completed,       \* history: flows that ran to their end
  run,             \* reconciler on its own: which run this is
  first_run,       \* reconciler on its own: payloads posted by run 1
  params,          \* fetch_paginated_data: the `params` argument
  notices,         \* error, success and failure lines printed by the current
                   \* loop pass (or listing request)
  created          \* what the last create_template/create_audience returned

vars ==
  <<config, pc, migrate_config, endpoint, page, size, all_content, templates,
    audiences, connections, i, template_data, source_map, config_map,
    common_names, requests, responses, started, completed, run, first_run,
    params, notices, created>>

paginator == <<endpoint, page, size, all_content, responses, params>>
batches == <<templates, audiences, connections>>
reconciler == <<source_map, config_map, common_names>>
reruns == <<run, first_run>>
reports == <<notices, created>>

Request(method, url, headers, query, json, result) ==
  [method |-> method, url |-> url, headers |-> headers, params |-> query,
   json |-> json, result |-> result]

\* migrate_config.get(flow, False)
Flag(flow) == Get(migrate_config, flow, FALSE)

Init ==
  /\ config \in Configs
  /\ pc = "validate_config"
  /\ migrate_config = EmptyDict
  /\ endpoint = "" /\ page = 1 /\ size = DefaultSize /\ all_content = <<>>
  /\ templates = <<>> /\ audiences = <<>> /\ connections = <<>>
  /\ i = 1 /\ template_data = None
  /\ source_map = EmptyDict /\ config_map = EmptyDict /\ common_names = {}
  /\ requests = <<>> /\ responses = <<>>
  /\ started = {} /\ completed = {}
  /\ run = 1 /\ first_run = {}
  /\ params = None /\ notices = <<>> /\ created = None

(* ------------------------------- main --------------------------------- *)
\* validate_config(config) returns; migrate_config = config.get("migrating", {})
ValidateOk ==
  /\ pc = "validate_config"
  /\ validate_config(config) = "ok"
  /\ migrate_config' = Get(config, "migrating", EmptyDict)
  /\ pc' = "templates_flag"
  /\ UNCHANGED <<config, paginator, batches, i, template_data, reconciler,
                 requests, started, completed, reruns, reports>>

\* validate_config(config) raises KeyError: the run ends
ValidateRaises ==
  /\ pc = "validate_config"
  /\ validate_config(config) # "ok"
  /\ pc' = "config_error"
  /\ UNCHANGED <<config, migrate_config, paginator, batches, i, template_data,
                 reconciler, requests, started, completed, reruns, reports>>

FlagPc(flow) ==
  CASE flow = "templates" -> "templates_flag"
    [] flow = "audiences" -> "audiences_flag"
    [] flow = "databases" -> "databases_flag"

FetchPc(flow) ==
  CASE flow = "templates" -> "fetch_templates"
    [] flow = "audiences" -> "fetch_audiences"
    [] flow = "databases" -> "fetch_connections"

ListingOf(flow) == IF flow = "databases" THEN "connections" ELSE flow

\* the databases block placed before the audiences block
AfterFlow_DatabasesSecond(flow) ==
  CASE flow = "templates" -> "databases_flag"
    [] flow = "databases" -> "audiences_flag"
    [] flow = "audiences" -> "done"

AfterFlow(flow) ==
  CASE flow = "templates" -> "audiences_flag"
    [] flow = "audiences" -> "databases_flag"
    [] flow = "databases" -> "done"

\* `if migrate_config.get(flow, False):` is taken; fetch_paginated_data
\* starts (page = 1, size, all_content = []).  The batch and the history of
\* the flow before are dropped here: nothing reads them again.
FlowEnabled(flow) ==
  /\ pc = FlagPc(flow)
  /\ Flag(flow)
  /\ endpoint' = ListingOf(flow)
  /\ page' = 1
  /\ params' = None
  /\ size' = Size(None)
  /\ all_content' = <<>>
  /\ responses' = <<>>
  /\ requests' = <<>>
  /\ templates' = <<>> /\ audiences' = <<>> /\ connections' = <<>>
  /\ i' = 1
  /\ notices' = <<>> /\ created' = None
  /\ pc' = FetchPc(flow)
  /\ UNCHANGED <<config, migrate_config, template_data, reconciler, started,
                 completed, reruns>>

\* the `if` is not taken: the flow is skipped
FlowSkipped(flow) ==
  /\ pc = FlagPc(flow)
  /\ ~Flag(flow)
  /\ pc' = AfterFlow(flow)
  /\ requests' = <<>>
  /\ responses' = <<>>
  /\ templates' = <<>> /\ audiences' = <<>> /\ connections' = <<>>
  /\ i' = 1
  /\ notices' = <<>> /\ created' = None
  /\ UNCHANGED <<config, migrate_config, endpoint, page, size, all_content, params,
                 template_data, reconciler, started, completed, reruns>>

\* one pass of the while loop of fetch_paginated_data(config, endpoint):
\* the listing request, then break or page += 1; on break the batch goes
\* to the caller
Paginate(flow) ==
  /\ pc = FetchPc(flow)
  /\ page <= MaxPages
  /\ \E outcome \in Outcomes(ListingBodies(endpoint, page = MaxPages)) :
       LET data == send_request(outcome)
           step == PaginateStep(all_content, page, data)
           req  == Request("GET", get_endpoint(config["source"]["url"], endpoint),
                           prepare_headers(config, "source"),
                           CurrentParams(page, size, params), EmptyDict, data)
       IN  /\ requests' = Append(requests, req)
           /\ notices' = SendRequestNotice(outcome)
           /\ responses' = Append(responses, data)
           /\ started' = started \cup {flow}
           /\ all_content' = step.all_content
           /\ page' = step.page
           /\ IF step.return
              THEN /\ pc' = CASE flow = "templates" -> "templates_loop"
                              [] flow = "audiences" -> "audiences_loop"
                              [] flow = "databases" -> "sync_connections"
                   /\ templates' = IF flow = "templates" THEN step.all_content ELSE templates
                   /\ audiences' = IF flow = "audiences" THEN step.all_content ELSE audiences
                   /\ connections' = IF flow = "databases" THEN step.all_content ELSE connections
              ELSE /\ pc' = pc
                   /\ UNCHANGED batches
  /\ UNCHANGED <<config, migrate_config, endpoint, size, params, i, template_data,
                 reconciler, completed, reruns, created>>

(* --------------------------- templates flow --------------------------- *)
\* template['id'] of the record the for loop is at
HasId(template) == "id" \in DOMAIN template

\* the url of fetch_content: the templates endpoint + "/" + template_id
DetailUrl(base_url, template_id) ==
  [base |-> base_url, path |-> ENDPOINTS["templates"], id |-> template_id]

\* `if template_data:` of main
DetailUsable(data) == Truthy(data)

\* create_template called with the listed record
TemplatePayload_Listed(template, data) == template

\* what create_template posts: the record fetch_content returned
TemplatePayload(template, data) == data.val

\* fetch_content(config, template['id']); then `if template_data:`
FetchContent ==
  /\ pc = "templates_loop"
  /\ i <= Len(templates)
  /\ HasId(templates[i])
  /\ \E outcome \in Outcomes(DetailBodies(templates[i].id)) :
       LET data == send_request(outcome)
           req  == Request("GET", DetailUrl(config["source"]["url"], templates[i].id),
                           prepare_headers(config, "source"), EmptyDict, EmptyDict, data)
       IN  /\ requests' = Append(requests, req)
           /\ notices' = SendRequestNotice(outcome)
           /\ template_data' = data
           /\ IF DetailUsable(data)
              THEN pc' = "create_template" /\ i' = i
              ELSE pc' = "templates_loop" /\ i' = i + 1
  /\ UNCHANGED <<config, migrate_config, paginator, batches, reconciler,
                 started, completed, reruns, created>>

\* template['id'] raises KeyError: nothing catches it, the run ends
TemplateKeyError ==
  /\ pc = "templates_loop"
  /\ i <= Len(templates)
  /\ ~HasId(templates[i])
  /\ pc' = "key_error"
  /\ UNCHANGED <<config, migrate_config, paginator, batches, i, template_data,
                 reconciler, requests, started, completed, reruns, reports>>

\* create_template(config, template_data)
CreateTemplate ==
  /\ pc = "create_template"
  /\ \E outcome \in Outcomes(CreateBodies) :
       LET response == send_request(outcome)
           req == Request("POST", get_endpoint(config["destination"]["url"], "templates"),
                          prepare_headers(config, "destination"), EmptyDict,
                          TemplatePayload(templates[i], template_data), response)
       IN  /\ requests' = Append(requests, req)
           /\ notices' = notices \o SendRequestNotice(outcome)
                            \o <<CreatorNotice("create_template", response)>>
           /\ created' = CreatorReturn(response)
  /\ i' = i + 1
  /\ pc' = "templates_loop"
  /\ UNCHANGED <<config, migrate_config, paginator, batches, template_data,
                 reconciler, started, completed, reruns>>

\* the for loop over templates is exhausted
TemplatesDone ==
  /\ pc = "templates_loop"
  /\ i > Len(templates)
  /\ completed' = completed \cup {"templates"}
  /\ pc' = AfterFlow("templates")
  /\ UNCHANGED <<config, migrate_config, paginator, batches, i, template_data,
                 reconciler, requests, started, reruns, reports>>

(* --------------------------- audiences flow --------------------------- *)
\* audience['name'] of the record the for loop is at
HasName(db) == "name" \in DOMAIN db

\* what create_audience posts: the listed record
AudiencePayload(audience) == audience

\* print(... audience['name']); create_audience(config, audience)
CreateAudience ==
  /\ pc = "audiences_loop"
  /\ i <= Len(audiences)
  /\ HasName(audiences[i])
  /\ \E outcome \in Outcomes(CreateBodies) :
       LET response == send_request(outcome)
           req == Request("POST", get_endpoint(config["destination"]["url"], "audiences"),
                          prepare_headers(config, "destination"), EmptyDict,
                          AudiencePayload(audiences[i]), response)
       IN  /\ requests' = Append(requests, req)
           /\ notices' = SendRequestNotice(outcome)
                            \o <<CreatorNotice("create_audience", response)>>
           /\ created' = CreatorReturn(response)
  /\ i' = i + 1
  /\ pc' = "audiences_loop"
  /\ UNCHANGED <<config, migrate_config, paginator, batches, template_data,
                 reconciler, started, completed, reruns>>

\* audience['name'] raises KeyError in the print before the create
AudienceKeyError ==
  /\ pc = "audiences_loop"
  /\ i <= Len(audiences)
  /\ ~HasName(audiences[i])
  /\ pc' = "key_error"
  /\ UNCHANGED <<config, migrate_config, paginator, batches, i, template_data,
                 reconciler, requests, started, completed, reruns, reports>>

AudiencesDone ==
  /\ pc = "audiences_loop"
  /\ i > Len(audiences)
  /\ completed' = completed \cup {"audiences"}
  /\ pc' = AfterFlow("audiences")
  /\ UNCHANGED <<config, migrate_config, paginator, batches, i, template_data,
                 reconciler, requests, started, reruns, reports>>

(* --------------------------- databases flow --------------------------- *)
config_databases == Get(config, "databases", <<>>)

\* sync_connections up to the for loop: the two maps and their common keys
SyncMaps ==
  /\ pc = "sync_connections"
  /\ HasNames(connections) /\ HasNames(config_databases)
  /\ source_map' = NameMap(connections)
  /\ config_map' = NameMap(config_databases)
  /\ common_names' = CommonNames(NameMap(connections), NameMap(config_databases))
  /\ pc' = "sync_loop"
  /\ UNCHANGED <<config, migrate_config, paginator, batches, i, template_data,
                 requests, started, completed, reruns, reports>>

\* db["name"] raises KeyError while a map is built
SyncKeyError ==
  /\ pc = "sync_connections"
  /\ ~(HasNames(connections) /\ HasNames(config_databases))
  /\ pc' = "key_error"
  /\ UNCHANGED <<config, migrate_config, paginator, batches, i, template_data,
                 reconciler, requests, started, completed, reruns, reports>>

\* one pass of `for name in common_names`: a set, visited in any order
SyncPost ==
  /\ pc = "sync_loop"
  /\ \E name \in common_names :
       LET source_db == connections[source_map[name]]
           config_db == config_databases[config_map[name]]
           payload   == MergePayload(source_db, config_db)
       IN  /\ \E outcome \in Outcomes(CreateBodies) :
                /\ requests' = Append(requests,
                     Request("POST", get_endpoint(config["destination"]["url"], "connections"),
                             prepare_headers(config, "destination"), EmptyDict, payload,
                             send_request(outcome)))
                /\ notices' = SendRequestNotice(outcome)
                     \o <<CreatorNotice("sync_connections", send_request(outcome))>>
           /\ connections' = [connections EXCEPT
                                ![source_map[name]] = SourceAfterMerge(source_db, payload)]
           /\ common_names' = common_names \ {name}
  /\ UNCHANGED <<config, pc, migrate_config, paginator, templates, audiences, i,
                 template_data, source_map, config_map, started, completed, reruns,
                 created>>

\* the for loop is exhausted: sync_connections returns, main ends
SyncDone ==
  /\ pc = "sync_loop"
  /\ common_names = {}
  /\ completed' = completed \cup {"databases"}
  /\ pc' = AfterFlow("databases")
  /\ UNCHANGED <<config, migrate_config, paginator, batches, i, template_data,
                 reconciler, requests, started, reruns, reports>>

(* --------------------------- specifications --------------------------- *)
Next ==
  \/ ValidateOk
  \/ ValidateRaises
  \/ \E flow \in FlowNames : FlowEnabled(flow)
  \/ \E flow \in FlowNames : FlowSkipped(flow)
  \/ \E flow \in FlowNames : Paginate(flow)
  \/ FetchContent
  \/ TemplateKeyError
  \/ CreateTemplate
  \/ TemplatesDone
  \/ CreateAudience
  \/ AudienceKeyError
  \/ AudiencesDone
  \/ SyncMaps
  \/ SyncKeyError
  \/ SyncPost
  \/ SyncDone

Spec == Init /\ [][Next]_vars

\* payloads posted so far by the current flow
Posted == {requests[k].json : k \in {n \in 1..Len(requests) : requests[n].method = "POST"}}

\* valid configurations for sync_connections on its own: any local list,
\* case variants of a name included
ReconcileConfigs ==
  {[k \in DOMAIN c \cup (IF dbs = <<>> THEN {} ELSE {"databases"}) |->
      IF k = "databases" THEN dbs ELSE c[k]] :
     c \in {x \in Configs : /\ validate_config(x) = "ok"
                             /\ Get(x, "migrating", EmptyDict)
                                  = [f \in FlowNames |-> f = "databases"]
                             /\ "databases" \notin DOMAIN x},
     dbs \in SeqsUpTo(LocalRecords \cup CaseVariants, MaxLocal)}

\* sync_connections(db_payload, config) on its own: any batch, a valid
\* configuration, and the same call made a second time
ReconcileInit ==
  /\ config \in ReconcileConfigs
  /\ connections \in SeqsUpTo(ListingRecords("connections"), MaxSource)
  /\ pc = "sync_connections"
  /\ migrate_config = EmptyDict
  /\ endpoint = "connections" /\ page = 1 /\ size = DefaultSize /\ all_content = <<>>
  /\ templates = <<>> /\ audiences = <<>>
  /\ i = 1 /\ template_data = None
  /\ source_map = EmptyDict /\ config_map = EmptyDict /\ common_names = {}
  /\ requests = <<>> /\ responses = <<>>
  /\ started = {} /\ completed = {}
  /\ run = 1 /\ first_run = {}
  /\ params = None /\ notices = <<>> /\ created = None

\* the second call, on the batch and configuration the first call left
Rerun ==
  /\ pc = "done"
  /\ run = 1
  /\ run' = 2
  /\ first_run' = Posted
  /\ requests' = <<>>
  /\ source_map' = EmptyDict /\ config_map' = EmptyDict /\ common_names' = {}
  /\ completed' = {}
  /\ notices' = <<>>
  /\ pc' = "sync_connections"
  /\ UNCHANGED <<config, migrate_config, paginator, batches, i, template_data,
                 started, created>>

ReconcileNext == SyncMaps \/ SyncKeyError \/ SyncPost \/ SyncDone \/ Rerun

SpecReconcile == ReconcileInit /\ [][ReconcileNext]_vars

\* fetch_paginated_data(config, endpoint, params) on its own: any
\* endpoint, any `params`, a valid configuration
PaginateInit ==
  /\ config \in {c \in Configs : validate_config(c) = "ok"
                                    /\ Get(c, "migrating", EmptyDict) = EmptyDict}
  /\ endpoint \in {ListingOf(flow) : flow \in FlowNames}
  /\ params \in ParamsValues
  /\ pc = FetchPc(CHOOSE flow \in FlowNames : ListingOf(flow) = endpoint)
  /\ migrate_config = EmptyDict
  /\ page = 1 /\ size = Size(params) /\ all_content = <<>>
  /\ templates = <<>> /\ audiences = <<>> /\ connections = <<>>
  /\ i = 1 /\ template_data = None
  /\ source_map = EmptyDict /\ config_map = EmptyDict /\ common_names = {}
  /\ requests = <<>> /\ responses = <<>>
  /\ started = {} /\ completed = {}
  /\ run = 1 /\ first_run = {}
  /\ notices = <<>> /\ created = None

PaginateNext == \E flow \in FlowNames : Paginate(flow)

SpecPaginate == PaginateInit /\ [][PaginateNext]_vars

(* ------------------------- terms of the claims ------------------------ *)
FetchPcs == {"fetch_templates", "fetch_audiences", "fetch_connections"}

\* fetch_paginated_data has returned to the flow that called it
Returned == responses # <<>> /\ pc \notin FetchPcs

\* the batch it returned
Batch ==
  CASE endpoint = "templates"   -> templates
    [] endpoint = "audiences"   -> audiences
    [] endpoint = "connections" -> connections
    [] OTHER                    -> <<>>

ReportsLast(data, b) ==
  data.type = "dict" /\ "last" \in DOMAIN data.val /\ data.val["last"] = b

\* nothing came back, or an empty object
Unusable(data) == data = None \/ data = Dict(EmptyDict)

\* the content array of a response, nothing when it has none
ContentOf(data) ==
  IF data.type = "dict" /\ "content" \in DOMAIN data.val THEN data.val["content"] ELSE <<>>

RECURSIVE ContentsUpTo(_, _)
ContentsUpTo(rs, n) == IF n = 0 THEN <<>> ELSE ContentsUpTo(rs, n - 1) \o ContentOf(rs[n])

IsPost(r) == r.method = "POST"
IsDetail(r) == r.method = "GET" /\ r.url.id # ""
DetailSucceeded(r) == IsDetail(r) /\ r.result # None

Posts == SelectSeq(requests, IsPost)
Details == SelectSeq(requests, IsDetail)

Jsons(rs) == [k \in 1..Len(rs) |-> rs[k].json]

\* the flags as the configuration gives them
Flagged == {f \in FlowNames : Get(Get(config, "migrating", EmptyDict), f, FALSE)}

(* ------------------------------- claims ------------------------------- *)
\* C1: when the listing responses 1..n-1 report last = false and response n
\* reports last = true, fetch_paginated_data returns the concatenation of
\* the content arrays of the n responses, in order.
C1_Concatenation ==
  LET n == Len(responses)
  IN  (/\ Returned
       /\ \A k \in 1..(n - 1) : ReportsLast(responses[k], FALSE)
       /\ ReportsLast(responses[n], TRUE))
      => Batch = ContentsUpTo(responses, n)

\* two pages, both with a record, the second marked last
C1_Witness ==
  /\ Returned
  /\ Len(responses) = 2
  /\ ReportsLast(responses[1], FALSE) /\ ReportsLast(responses[2], TRUE)
  /\ ContentOf(responses[1]) # <<>> /\ ContentOf(responses[2]) # <<>>
  /\ Len(Batch) = 2

\* C2: when the listing request for a page yields no usable response,
\* fetch_paginated_data returns (it does not go on, it does not raise) and
\* what it returns is the content of the pages before.
C2_PartialResult ==
  LET n == Len(responses)
  IN  (n >= 1 /\ Unusable(responses[n]))
      => /\ pc \notin FetchPcs
         /\ Batch = ContentsUpTo(responses, n - 1)

\* a page with a record, then a request that fails
C2_Witness ==
  /\ Len(responses) = 2
  /\ responses[2] = None
  /\ ContentOf(responses[1]) # <<>>
  /\ pc \in {"templates_loop", "audiences_loop", "sync_connections"}
  /\ Len(Batch) = 1

\* names of the source batch (of the records that have one) and of the
\* local list, lower-cased
SourceNames ==
  {Lower(connections[k].name) : k \in {n \in 1..Len(connections) : HasName(connections[n])}}
LocalNames == {Lower(config_databases[k].name) : k \in 1..Len(config_databases)}

PostedNames == {Lower(Posts[k].json.name) : k \in 1..Len(Posts)}

\* the databases flow has its batch
InDatabases == endpoint = "connections" /\ Returned

\* C3: the databases flow issues a create request for exactly the
\* lower-cased names that occur both in the source batch and in the local
\* list: never for another name, and for every common name once the flow
\* has ended.
C3_ExactlyCommonNames ==
  InDatabases =>
    /\ PostedNames \subseteq (SourceNames \cap LocalNames)
    /\ pc \in {"done", "key_error"} => PostedNames = SourceNames \cap LocalNames

\* C3, for the batches in which every record has a name
DatabasesCreatesWhenNamed ==
  (InDatabases /\ HasNames(connections)) =>
    /\ PostedNames \subseteq (SourceNames \cap LocalNames)
    /\ pc \in {"done", "key_error"} => PostedNames = SourceNames \cap LocalNames

\* C4: every payload posted by the reconciler keeps the fields of a source
\* record of that name other than password, port, host and user, and has
\* each of these four from the local record of that name, null when the
\* local record lacks it; a value the source record has for one of the four
\* is not sent.
C4_MergedPayload ==
  InDatabases =>
    \A k \in 1..Len(Posts) :
      LET p == Posts[k].json
      IN  \E a \in 1..Len(connections), b \in 1..Len(config_databases) :
            LET src == connections[a]
                loc == config_databases[b]
            IN  /\ HasName(src)
                /\ Lower(src.name) = Lower(loc.name)
                /\ DOMAIN p = DOMAIN src \cup SecretFields
                /\ \A f \in DOMAIN src \ SecretFields : p[f] = src[f]
                /\ \A f \in SecretFields :
                     p[f] = IF f \in DOMAIN loc THEN loc[f] ELSE Null

\* the source record has a password, the local record has none: null is sent
C4_Witness ==
  /\ InDatabases
  /\ \E k \in 1..Len(Posts) :
       /\ Posts[k].json.name = "DB2"
       /\ Posts[k].json.password = Null
       /\ Posts[k].json.host = "h2"
       /\ Posts[k].json.kind = "pg"

\* C5: a second run of sync_connections on the same batch and the same
\* configuration posts the same payloads as the first, and no step of a run
\* changes the batch or the configuration.
C5_Idempotent ==
  /\ []((run = 2 /\ pc = "done") => Posted = first_run)
  /\ [][connections' = connections /\ config' = config]_vars

\* both runs done, two payloads each
C5_Witness ==
  /\ run = 2 /\ pc = "done"
  /\ Cardinality(first_run) = 2
  /\ Posted = first_run

DetailIds(rs) == [k \in 1..Len(rs) |-> rs[k].url.id]
DetailRecords(rs) == [k \in 1..Len(rs) |-> rs[k].result.val]
BatchIds(ts) == [k \in 1..Len(ts) |-> ts[k].id]

\* the templates flow has reached its end
TemplatesEnded == endpoint = "templates" /\ Returned /\ pc = "audiences_flag"

\* C6: in the templates flow a detail fetch is made for every listed id, in
\* listing order, and the create requests are those of the ids whose detail
\* fetch succeeded, in that order, each with the record the fetch returned.
C6_CreatesForFetched ==
  TemplatesEnded =>
    /\ DetailIds(Details) = BatchIds(templates)
    /\ Jsons(Posts) = DetailRecords(SelectSeq(requests, DetailSucceeded))

DetailTruthy(r) == IsDetail(r) /\ Truthy(r.result)

\* C6, with the ids whose detail fetch returned a record that is not empty
TemplateCreatesWhenNotEmpty ==
  TemplatesEnded =>
    /\ DetailIds(Details) = BatchIds(templates)
    /\ Jsons(Posts) = DetailRecords(SelectSeq(requests, DetailTruthy))

\* C7: the audiences flow, once ended, has issued one create request per
\* record of its batch, in listing order, with the listed record as
\* payload, and no detail fetch.
C7_CreatePerAudience ==
  (endpoint = "audiences" /\ Returned /\ pc \in {"databases_flag", "key_error"}) =>
    /\ Jsons(Posts) = audiences
    /\ Details = <<>>

\* C7, for the flows that reach their end
AudienceCreatesWhenNamed ==
  (endpoint = "audiences" /\ Returned /\ pc = "databases_flag") =>
    /\ Jsons(Posts) = audiences
    /\ Details = <<>>

\* C8: no record of a batch ends the run: the KeyError state is never
\* reached.
C8_NoAbort == pc # "key_error"

Incomplete(cfg) ==
  \E s \in {"source", "destination"} :
    \/ s \notin DOMAIN cfg
    \/ ~({"url", "ApiKey", "CustomerId"} \subseteq DOMAIN cfg[s])

\* C9: with a configuration that lacks a required section or field the run
\* never gets past validation: no request is issued and no flow starts.
C9_ConfigErrorFirst ==
  Incomplete(config) =>
    /\ pc \in {"validate_config", "config_error"}
    /\ requests = <<>>
    /\ started = {}

\* only destination.ApiKey is missing, all three flags are set
C9_Witness ==
  /\ pc = "config_error"
  /\ {"source", "destination"} \subseteq DOMAIN config
  /\ DOMAIN config["source"] = {"url", "ApiKey", "CustomerId"}
  /\ DOMAIN config["destination"] = {"url", "CustomerId"}
  /\ Flagged = FlowNames

\* C10: only flagged flows issue requests, and when the run has ended every
\* flagged flow has issued its requests and has run to its end.
C10_FlowsIsolated ==
  /\ started \subseteq Flagged
  /\ pc \in {"done", "key_error"} => (started = Flagged /\ completed = Flagged)

\* C10, for the runs that end without a KeyError
FlowsIsolatedWhenNoAbort ==
  /\ started \subseteq Flagged
  /\ pc = "done" => (started = Flagged /\ completed = Flagged)

\* a pass of one of the three record loops has just ended: `notices` holds
\* what was printed for its record
PassDone ==
  \/ pc \in {"templates_loop", "audiences_loop"} /\ i > 1
  \/ pc = "sync_loop" /\ Posts # <<>>

\* the lines that name the outcome for the record, as against the error
\* line of send_request
RecordNotices == SelectSeq(notices, LAMBDA n : n.by # "send_request")

\* C11: for each template, audience and merged connection a flow has
\* processed, the outcome was reported: at least one line was printed for
\* the record (the error line of send_request counted as one), and not more
\* than one line naming its success or failure; a template whose detail
\* fetch gave no usable record is no exception.
C11_OutcomeReported ==
  PassDone => (Len(notices) >= 1 /\ Len(RecordNotices) <= 1)

\* every record for which a create request was sent has exactly one line
\* naming its success or failure
CreateReportedOnce ==
  (PassDone /\ requests # <<>> /\ IsPost(requests[Len(requests)]))
    => Len(RecordNotices) = 1

\* C12: create_template and create_audience return the decoded response
\* and print the success line whenever the create request succeeded and its
\* body decoded, an empty object included; they return None and print the
\* failure line only when send_request failed.
C12_CreatorReportsSuccess ==
  (/\ pc \in {"templates_loop", "audiences_loop"}
   /\ requests # <<>>
   /\ IsPost(requests[Len(requests)]))
  => LET response == requests[Len(requests)].result
     IN  IF response # None
         THEN created = response /\ RecordNotices[1].says = "success"
         ELSE created = None /\ RecordNotices[1].says = "failure"

\* the same with the empty object left out: a create answered by a
\* non-empty object is a success, one that send_request gave up a failure
CreatorReportsWhenNotEmpty ==
  (/\ pc \in {"templates_loop", "audiences_loop"}
   /\ requests # <<>>
   /\ IsPost(requests[Len(requests)])
   /\ requests[Len(requests)].result # Dict(EmptyDict))
  => LET response == requests[Len(requests)].result
     IN  IF response # None
         THEN created = response /\ RecordNotices[1].says = "success"
         ELSE created = None /\ RecordNotices[1].says = "failure"

\* a listing request: a GET without a template id
IsListing(r) == r.method = "GET" /\ r.url.id = ""
Listings == SelectSeq(requests, IsListing)

\* a response that ends the pagination: marked last, or unusable
Stops(data) == Unusable(data) \/ ReportsLast(data, TRUE)

\* C13: the pagination stops exactly at the first listing response that is
\* marked last or unusable: no response before the latest one is such a
\* response, the paginator has returned as soon as one arrived and sends no
\* listing request after it, it returns for no other reason, and until
\* then its next request can always be sent (so it ends after finitely
\* many requests once the server answers with such a response).
C13_StopsAtFirst ==
  LET n == Len(responses)
  IN  /\ \A k \in 1..(n - 1) : ~Stops(responses[k])
      /\ (n >= 1 /\ Stops(responses[n])) => pc \notin FetchPcs
      /\ Returned => Stops(responses[n])
      /\ Len(Listings) = n
      /\ pc \in FetchPcs => ENABLED (\E flow \in FlowNames : Paginate(flow))

\* a response that is neither marked last nor unusable, then one marked
\* last: two requests and the paginator has returned
C13_Witness ==
  /\ Returned
  /\ Len(responses) = 2 /\ Len(Listings) = 2
  /\ responses[1].type = "dict" /\ "last" \notin DOMAIN responses[1].val
  /\ ~Unusable(responses[1])
  /\ ReportsLast(responses[2], TRUE)

\* main with its steps taken as long as one is possible
FairSpec == Spec /\ WF_vars(Next)

\* where a run of main can end
EndPcs == {"done", "key_error", "config_error"}

\* C14: with a valid configuration and listings that end, the run completes
\* every enabled flow and ends normally whatever the servers answered for
\* the records: a run that cannot take a step has reached the end of main
\* with every flagged flow completed.
C14_RunCompletes ==
  validate_config(config) = "ok"
    => (pc = "done" /\ completed = Flagged) \/ ENABLED Next

\* the same for the runs that no missing key has ended
RunCompletesWhenNoAbort ==
  (validate_config(config) = "ok" /\ pc # "key_error")
    => (pc = "done" /\ completed = Flagged) \/ ENABLED Next

\* every run ends: at the end of main or on a KeyError
RunEnds == <>(pc \in EndPcs)

\* `params` has a page of its own
RedefinesPage == params.type = "dict" /\ "page" \in DOMAIN params.val

\* the size the caller supplied, 100 when none
SuppliedSize ==
  IF params.type = "dict" /\ "size" \in DOMAIN params.val
  THEN params.val["size"] ELSE DefaultSize

\* the k-th listing request asks for page k-1 with the supplied size
InSequence ==
  \A k \in 1..Len(Listings) :
    /\ Listings[k].params["page"] = k - 1
    /\ Listings[k].params["size"] = SuppliedSize

\* C15 as stated: within one pagination the k-th listing request carries
\* page = k-1 and every request carries the same size, the caller's or 100,
\* for every `params` mapping fetch_paginated_data can be called with.
C15_PageSequence == InSequence

\* C15 amended: the same for every `params` mapping that has no `page` key
\* of its own.
C15_PageSequenceUnlessRedefined == ~RedefinesPage => InSequence

\* two requests with a caller-supplied size and a filter
C15_Witness ==
  /\ params = Dict([size |-> 1, filter |-> "x"])
  /\ Len(Listings) = 2
  /\ Listings[1].params["page"] = 0 /\ Listings[2].params["page"] = 1
  /\ Listings[1].params["size"] = 1 /\ Listings[2].params["size"] = 1

\* C16: page boundaries depend on the last flag only: a decodable response
\* with last = false never ends the pagination, whatever the length of its
\* content, and a response with last = true always ends it.
C16_LastFlagOnly ==
  LET n == Len(responses)
  IN  \A k \in 1..n :
        /\ ReportsLast(responses[k], FALSE) => (k < n \/ pc \in FetchPcs)
        /\ ReportsLast(responses[k], TRUE) => (k = n /\ pc \notin FetchPcs)

\* size 1: a page of two records with last = false is followed by a second
\* request, whose empty page with last = true ends the pagination
C16_Witness ==
  /\ size = 1
  /\ Len(responses) = 2
  /\ ReportsLast(responses[1], FALSE) /\ Len(ContentOf(responses[1])) = 2
  /\ ReportsLast(responses[2], TRUE) /\ ContentOf(responses[2]) = <<>>
  /\ pc \notin FetchPcs

\* the requests of the current flow up to the k-th
UpTo(k) == SubSeq(requests, 1, k)

\* C17: each flow fetches then creates: in the requests of a flow every
\* listing request precedes every create and every detail request, and the
\* paginator has returned before the first of these; the listing requests
\* of a flow are those of one pagination (in the databases flow the
\* connection listing is paginated once: pages 0, 1, ... each asked once, at
\* least one once the flow has its batch); and in the templates flow every
\* create request directly follows a detail request that returned a record,
\* for the id of the template at hand, and posts that record.
C17_FetchThenCreate ==
  LET n == Len(requests)
  IN  /\ \A k \in 1..n : \A m \in 1..n :
           (IsListing(requests[k]) /\ ~IsListing(requests[m])) => k < m
      /\ (\E k \in 1..n : ~IsListing(requests[k])) => Returned
      /\ \A k \in 1..Len(Listings) : Listings[k].params["page"] = k - 1
      /\ (endpoint = "connections" /\ pc \in {"sync_connections", "sync_loop", "done"})
           => Len(Listings) >= 1
      /\ endpoint = "templates"
           => \A k \in 1..n :
                IsPost(requests[k])
                  => /\ k > 1
                     /\ IsDetail(requests[k - 1])
                     /\ requests[k - 1].result # None
                     /\ requests[k].json = requests[k - 1].result.val
                     /\ \E t \in 1..Len(templates) :
                          /\ HasId(templates[t])
                          /\ requests[k - 1].url.id = templates[t].id
                          /\ t = Len(SelectSeq(UpTo(k), IsDetail))

\* two templates listed on two pages, both fetched and created
C17_Witness ==
  /\ endpoint = "templates"
  /\ Len(Listings) = 2
  /\ Len(requests) = 6
  /\ IsDetail(requests[3]) /\ IsPost(requests[4])
  /\ IsDetail(requests[5]) /\ IsPost(requests[6])
  /\ requests[3].url.id # requests[5].url.id

\* the flow a request belongs to: told by the endpoint it is sent to
FlowOf(r) ==
  CASE r.url.path = ENDPOINTS["templates"]   -> "templates"
    [] r.url.path = ENDPOINTS["audiences"]   -> "audiences"
    [] r.url.path = ENDPOINTS["connections"] -> "databases"

Rank(flow) ==
  CASE flow = "templates" -> 1
    [] flow = "audiences" -> 2
    [] flow = "databases" -> 3

\* C18: the flows never interleave and run in the order templates,
\* audiences, databases: a request is never sent for a flow that comes
\* before a flow that has already sent one; the flags are read once, before
\* the first request, and neither they nor the configuration change
\* afterwards; only flagged flows send requests.
C18_FixedOrder ==
  [][/\ config' = config
     /\ pc # "validate_config" => migrate_config' = migrate_config
     /\ pc = "validate_config" => (requests = <<>> /\ started = {} /\ requests' = <<>>)
     /\ (requests' # requests /\ requests' # <<>>)
          => LET r == requests'[Len(requests')]
             IN  /\ requests' = Append(requests, r)
                 /\ \A f \in started : Rank(f) <= Rank(FlowOf(r))
                 /\ started' = started \cup {FlowOf(r)}
                 /\ Flag(FlowOf(r))
                 /\ FlowOf(r) \in Flagged]_vars

\* the three flows have run, each with requests of its own
C18_Witness ==
  /\ pc = "done"
  /\ started = FlowNames /\ completed = FlowNames
  /\ Posts # <<>>

\* a request sent to the system of a section with that section's identity
SentAs(r, section) ==
  /\ r.url.base = config[section]["url"]
  /\ r.headers.ApiKey = config[section]["ApiKey"]
  /\ r.headers.CustomerId = config[section]["CustomerId"]

\* a request that reaches the system of a section or carries one of its
\* identity headers
Touches(r, section) ==
  \/ r.url.base = config[section]["url"]
  \/ r.headers.ApiKey = config[section]["ApiKey"]
  \/ r.headers.CustomerId = config[section]["CustomerId"]

\* C19: role separation: every request is a GET or a POST; every GET
\* (listing or detail) goes to the source URL with the source ApiKey and
\* CustomerId and has nothing of the destination, every POST goes to the
\* destination URL with the destination ApiKey and CustomerId and has
\* nothing of the source.
C19_RoleSeparation ==
  \A k \in 1..Len(requests) :
    LET r == requests[k]
    IN  /\ r.method \in {"GET", "POST"}
        /\ r.method = "GET"
             => SentAs(r, "source") /\ ~Touches(r, "destination") /\ r.json = EmptyDict
        /\ r.method = "POST"
             => SentAs(r, "destination") /\ ~Touches(r, "source")

\* a flow that has read a listing and a detail from the source and written
\* to the destination
C19_Witness ==
  /\ \E k \in 1..Len(requests) : IsListing(requests[k]) /\ requests[k].result # None
  /\ \E k \in 1..Len(requests) : IsDetail(requests[k]) /\ requests[k].result # None
  /\ \E k \in 1..Len(requests) : IsPost(requests[k]) /\ requests[k].result # None

\* position of the last record of a list whose lower-cased name is n
LastNamed(dbs, n) ==
  CHOOSE k \in 1..Len(dbs) :
    /\ HasName(dbs[k]) /\ Lower(dbs[k].name) = n
    /\ \A m \in (k + 1)..Len(dbs) : ~(HasName(dbs[m]) /\ Lower(dbs[m].name) = n)

\* names borne by more than one record of a list, letter case aside
Duplicated(dbs) ==
  {Lower(dbs[k].name) : k \in {x \in 1..Len(dbs) :
     /\ HasName(dbs[x])
     /\ \E m \in 1..Len(dbs) : m # x /\ HasName(dbs[m])
                                  /\ Lower(dbs[m].name) = Lower(dbs[x].name)}}

\* C20: sync_connections sends at most one create request per lower-cased
\* name; the payload posted for a name has the fields of the last source
\* record of that name in listing order (its spelling of the name
\* included) and the password, port, host and user of the last local
\* record of that name in configuration order; and when the call has
\* returned, every name common to both lists has its one payload, however
\* many records spell it.
C20_OnePerName ==
  /\ \A k \in 1..Len(Posts) : \A m \in 1..Len(Posts) :
       Lower(Posts[k].json.name) = Lower(Posts[m].json.name) => k = m
  /\ \A k \in 1..Len(Posts) :
       LET json      == Posts[k].json
           n         == Lower(json.name)
           source_db == connections[LastNamed(connections, n)]
           config_db == config_databases[LastNamed(config_databases, n)]
       IN  /\ DOMAIN json = DOMAIN source_db \cup SecretFields
           /\ \A f \in DOMAIN source_db \ SecretFields : json[f] = source_db[f]
           /\ \A f \in SecretFields : json[f] = Get(config_db, f, Null)
  /\ pc = "done" => PostedNames = SourceNames \cap LocalNames

\* two source records and two local records that spell one name
\* differently: one payload, from the second of each
C20_Witness ==
  /\ pc = "done"
  /\ Len(connections) = 2 /\ Len(config_databases) = 2
  /\ Duplicated(connections) = {"db1"} /\ Duplicated(config_databases) = {"db1"}
  /\ connections[2].name = "db1" /\ config_databases[2].name = "db1"
  /\ Len(Posts) = 1
  /\ Posts[1].json.name = "db1" /\ Posts[1].json.kind = "mysql"
  /\ Posts[1].json.host = "h1b" /\ Posts[1].json.password = Null

====
